---- MODULE Spec2Model ----
(***************************************************************************)
(* State-machine model of site_monitor: SiteMonitor (monitor.py), the      *)
(* batch driver SiteMonitorBot (bot.py) and NotificationManager            *)
(* (notifier.py).                                                          *)
(*                                                                         *)
(* A text is a sequence of characters; "LF" and "CR" stand for '\n' and    *)
(* '\r', every other string for an ordinary character.  A file is a record *)
(* [exists, data, complete]; a Python Optional is a record [none, val].    *)
(***************************************************************************)
EXTENDS Integers, Sequences, FiniteSets, TLC

VARIABLES
    sites,           \* Config.sites: the configured SiteConfigs, in order
    snapshot_files,  \* snapshots_dir: file name -> file
    history_files,   \* history_dir: file name -> file
    clock,           \* what datetime.now() returns next
    calls,           \* how many calls of each entry point were made
    observed,        \* file name -> the contents the checks observed, in order
    result,          \* the last operation, its inputs and what it returned
    threads          \* the check_site calls that run concurrently, each with
                     \* its position and its local variables

vars == <<sites, snapshot_files, history_files, clock, calls, observed, result, threads>>

(* ------------------------------ bounds ------------------------------- *)

\* longest text (in characters) a remote document yields in Spec
MaxLen == 1
\* number of SiteMonitor.check_site calls made directly in one behaviour
MaxChecks == 3
\* number of check_all_sites batches in one behaviour
MaxBatches == 2
\* most lines of a text in SpecDiff
MaxLines == 3
\* most checks whose events the stored history of SpecStatus begins with
MaxStored == 11
\* most checks made one after the other before the concurrent ones in SpecRace
MaxPrior == 1

(* --------------------------- generic helpers -------------------------- *)

SeqsUpTo(S, n) == UNION {[1..k -> S] : k \in 0..n}

Min(a, b) == IF a <= b THEN a ELSE b

Max(a, b) == IF a >= b THEN a ELSE b

RECURSIVE Join(_, _)
\* sep.join(parts)
Join(sep, parts) ==
    IF parts = <<>> THEN <<>>
    ELSE IF Len(parts) = 1 THEN Head(parts)
    ELSE Head(parts) \o sep \o Join(sep, Tail(parts))

\* Python slice s[-n:] for n >= 0 (s[-0:] is the whole sequence)
LastN(s, n) ==
    IF n = 0 \/ n >= Len(s) THEN s ELSE SubSeq(s, Len(s) - n + 1, Len(s))

IsPrefix(s, t) == Len(s) <= Len(t) /\ SubSeq(t, 1, Len(s)) = s

None == [none |-> TRUE, val |-> <<>>]

Some(v) == [none |-> FALSE, val |-> v]

(* ------------------------------- texts -------------------------------- *)

Chars == {"a", "CR"}

Texts == SeqsUpTo(Chars, MaxLen)

\* os.linesep of the platform the program runs on (POSIX)
os_linesep == <<"LF">>

RECURSIVE WriteTranslate(_)
\* open(path, 'w') with newline=None: every '\n' written becomes os.linesep
WriteTranslate(text) ==
    IF text = <<>> THEN <<>>
    ELSE (IF Head(text) = "LF" THEN os_linesep ELSE <<Head(text)>>)
         \o WriteTranslate(Tail(text))

RECURSIVE ReadTranslate(_)
\* open(path, 'r') with newline=None (universal newlines): '\r\n' and '\r'
\* are both read back as '\n'
ReadTranslate(data) ==
    IF data = <<>> THEN <<>>
    ELSE IF Head(data) = "CR"
         THEN IF Len(data) >= 2 /\ data[2] = "LF"
              THEN <<"LF">> \o ReadTranslate(Tail(Tail(data)))
              ELSE <<"LF">> \o ReadTranslate(Tail(data))
         ELSE <<Head(data)>> \o ReadTranslate(Tail(data))

RECURSIVE SplitFrom(_, _, _)
\* str.splitlines(keepends): cur is the line being collected
SplitFrom(text, cur, keepends) ==
    IF text = <<>> THEN (IF cur = <<>> THEN <<>> ELSE <<cur>>)
    ELSE IF Head(text) = "CR" /\ Len(text) >= 2 /\ text[2] = "LF"
         THEN <<IF keepends THEN cur \o <<"CR", "LF">> ELSE cur>>
              \o SplitFrom(Tail(Tail(text)), <<>>, keepends)
    ELSE IF Head(text) \in {"CR", "LF"}
         THEN <<IF keepends THEN cur \o <<Head(text)>> ELSE cur>>
              \o SplitFrom(Tail(text), <<>>, keepends)
    ELSE SplitFrom(Tail(text), cur \o <<Head(text)>>, keepends)

splitlines(text, keepends) == SplitFrom(text, <<>>, keepends)

(* ------------------------- difflib.unified_diff ------------------------ *)

\* the matching blocks a[i..i+size) = b[j..j+size) inside the two windows
\* (0-based, half-open, as in difflib)
CommonBlocks(a, b, alo, ahi, blo, bhi) ==
    {m \in [i : alo..(ahi - 1), j : blo..(bhi - 1), size : 1..Max(ahi - alo, 1)] :
        /\ m.i + m.size <= ahi
        /\ m.j + m.size <= bhi
        /\ \A k \in 1..m.size : a[m.i + k] = b[m.j + k]}

\* SequenceMatcher.find_longest_match without junk: the longest block, the
\* one starting earliest in a, and among those the one earliest in b
find_longest_match(a, b, alo, ahi, blo, bhi) ==
    LET all == CommonBlocks(a, b, alo, ahi, blo, bhi)
    IN  IF all = {} THEN [i |-> alo, j |-> blo, size |-> 0]
        ELSE CHOOSE m \in all :
                \A o \in all :
                    \/ o.size < m.size
                    \/ o.size = m.size /\ o.i > m.i
                    \/ o.size = m.size /\ o.i = m.i /\ o.j >= m.j

RECURSIVE get_matching_blocks(_, _, _, _, _, _)
\* SequenceMatcher.get_matching_blocks: longest block, then the pieces to
\* its left and to its right
get_matching_blocks(a, b, alo, ahi, blo, bhi) ==
    LET m == find_longest_match(a, b, alo, ahi, blo, bhi)
    IN  IF m.size = 0 THEN <<>>
        ELSE get_matching_blocks(a, b, alo, m.i, blo, m.j)
             \o <<m>>
             \o get_matching_blocks(a, b, m.i + m.size, ahi, m.j + m.size, bhi)

Tagged(tag, lines, lo, hi) ==
    [k \in 1..(hi - lo) |-> [tag |-> tag, line |-> lines[lo + k]]]

RECURSIVE OpcodeLines(_, _, _, _, _)
\* SequenceMatcher.get_opcodes as unified_diff renders it: the lines of a
\* removed ('-'), the lines of b added ('+'), the common lines (' ')
OpcodeLines(a, b, blocks, i, j) ==
    IF blocks = <<>>
    THEN Tagged("-", a, i, Len(a)) \o Tagged("+", b, j, Len(b))
    ELSE LET m == Head(blocks)
         IN  Tagged("-", a, i, m.i) \o Tagged("+", b, j, m.j)
             \o Tagged(" ", a, m.i, m.i + m.size)
             \o OpcodeLines(a, b, Tail(blocks), m.i + m.size, m.j + m.size)

\* number of context lines unified_diff keeps around a change (its default n)
ContextLines == 3

\* get_grouped_opcodes: the leading and the trailing run of common lines are
\* cut to ContextLines lines (a hunk is split only at a run of more than
\* 2 * ContextLines common lines, longer than any text here)
TrimContext(body) ==
    LET changed == {k \in 1..Len(body) : body[k].tag # " "}
        first == CHOOSE k \in changed : \A o \in changed : k <= o
        last == CHOOSE k \in changed : \A o \in changed : k >= o
    IN  SubSeq(body, Max(1, first - ContextLines), Min(Len(body), last + ContextLines))

HeaderFrom == <<"-", "-", "-", " ", "p", "r", "e", "v", "i", "o", "u", "s">>

HeaderTo == <<"+", "+", "+", " ", "c", "u", "r", "r", "e", "n", "t">>

\* the '@@ -l,s +l,s @@' line; the range numbers are not modelled
HunkHeader == <<"@", "@">>

\* difflib.unified_diff(a, b, fromfile='previous', tofile='current',
\* lineterm=''): nothing when the line lists are equal, else the two file
\* headers, the hunk header and the tagged lines
unified_diff(a, b) ==
    IF a = b THEN <<>>
    ELSE LET blocks == get_matching_blocks(a, b, 0, Len(a), 0, Len(b))
             body == TrimContext(OpcodeLines(a, b, blocks, 0, 0))
         IN  <<HeaderFrom, HeaderTo, HunkHeader>>
             \o [k \in 1..Len(body) |-> <<body[k].tag>> \o body[k].line]

\* SiteMonitor.get_diff
get_diff(old_content, new_content) ==
    unified_diff(splitlines(old_content, TRUE), splitlines(new_content, TRUE))

startswith(line, c) == Len(line) >= 1 /\ line[1] = c

\* len([l for l in diff if l.startswith('+') or l.startswith('-')])
CountDiffLines(diff) ==
    Cardinality({k \in 1..Len(diff) : startswith(diff[k], "+") \/ startswith(diff[k], "-")})

(* ------------------------ configuration (config.py) -------------------- *)

NoSelector == [none |-> TRUE, val |-> <<>>]

\* SiteConfig: name, url, mode, selector (ignore, headers and interval only
\* shape the request and the schedule)
SiteNews == [name |-> <<"N", "e", "w", "s">>, url |-> "u1", mode |-> "full",
             selector |-> NoSelector]

SiteShop == [name |-> <<"M", "y", " ", "S", "h", "o", "p">>, url |-> "u2",
             mode |-> "selector", selector |-> Some(<<".", "p">>)]

SiteDocs == [name |-> <<"d", "o", "c", "s">>, url |-> "u3", mode |-> "text",
             selector |-> NoSelector]

\* two sites whose names differ and a site whose name holds a letter outside
\* ASCII ("e-acute" stands for U+00E9)
SiteMySite == [name |-> <<"M", "y", " ", "S", "i", "t", "e">>, url |-> "u4",
               mode |-> "full", selector |-> NoSelector]

SiteMy_site == [name |-> <<"m", "y", "_", "s", "i", "t", "e">>, url |-> "u5",
                mode |-> "full", selector |-> NoSelector]

SiteCafe == [name |-> <<"C", "a", "f", "e-acute">>, url |-> "u6",
             mode |-> "full", selector |-> NoSelector]

\* Config.sites of a monitor of these three
AliasSites == <<SiteMySite, SiteMy_site, SiteCafe>>

\* Config.sites of a monitor whose checks run concurrently
RaceSites == <<SiteNews, SiteDocs>>

\* Config.sites of a bot that monitors three sites
BatchSites == <<SiteNews, SiteShop, SiteDocs>>

\* the configurations of a monitor with one site
SingleSiteConfigs == {<<SiteNews>>, <<SiteShop>>, <<SiteDocs>>}

AllSiteNames ==
    {SiteNews.name, SiteShop.name, SiteDocs.name,
     SiteMySite.name, SiteMy_site.name, SiteCafe.name}

(* ---------------------- SiteMonitor: paths (monitor.py) ---------------- *)

\* str.lower() on the characters names are written with
lower(c) ==
    CASE c = "N" -> "n"
      [] c = "M" -> "m"
      [] c = "S" -> "s"
      [] c = "C" -> "c"
      [] OTHER -> c

\* the characters of names that match [\w\-]: letters (of any script), digits,
\* '_' and '-'
WordOrDash ==
    {"n", "e", "w", "s", "m", "y", "h", "o", "p", "d", "c", "i", "t", "a", "f",
     "N", "M", "S", "C", "0", "1", "_", "-", "e-acute"}

\* SiteMonitor._get_safe_filename: re.sub(r'[^\w\-]', '_', name.lower())
_get_safe_filename(name) ==
    [k \in 1..Len(name) |->
        IF lower(name[k]) \in WordOrDash THEN lower(name[k]) ELSE "_"]

\* the file names under snapshots_dir (<token>.txt) and history_dir
\* (<token>.json) that the configured names lead to
Filenames == {_get_safe_filename(n) : n \in AllSiteNames}

\* a snapshot path built without the site's name: one file for every site
_get_snapshot_path_shared(site_name) == _get_safe_filename(SiteNews.name)

_get_snapshot_path(site_name) == _get_safe_filename(site_name)

_get_history_path(site_name) == _get_safe_filename(site_name)

(* ---------------------- SiteMonitor: storage (monitor.py) -------------- *)

NoFile == [exists |-> FALSE, data |-> <<>>, complete |-> TRUE]

\* _ensure_dirs: two empty directories
EmptyStore == [snap |-> [f \in Filenames |-> NoFile],
               hist |-> [f \in Filenames |-> NoFile]]

\* how a write of one check goes wrong: target is the file whose write fails
\* ("none": every write succeeds), written the part that reached the file
NoFault == [target |-> "none", written |-> 0]

Raised(st, exc) == [st |-> st, raised |-> TRUE, exc |-> exc, val |-> <<>>]

Returned(st, v) == [st |-> st, raised |-> FALSE, exc |-> "", val |-> v]

\* SiteMonitor.get_content_hash: sha256 is taken to be free of collisions
get_content_hash(content) == [sha256 |-> content]

\* load_snapshot that tells an empty snapshot from a missing one by its
\* truth value: an empty text is returned as None
load_snapshot_falsy(st, site_name) ==
    LET file == st.snap[_get_snapshot_path(site_name)]
    IN  IF file.exists /\ file.data # <<>> THEN Some(ReadTranslate(file.data)) ELSE None

\* SiteMonitor.load_snapshot
load_snapshot(st, site_name) ==
    LET file == st.snap[_get_snapshot_path(site_name)]
    IN  IF file.exists THEN Some(ReadTranslate(file.data)) ELSE None

\* SiteMonitor.save_snapshot: open(path, 'w') empties the file, then the
\* text is written; a write that fails leaves what had been written
save_snapshot(st, site_name, content, io) ==
    LET path == _get_snapshot_path(site_name)
        data == WriteTranslate(content)
    IN  IF io.target = "snapshot"
        THEN Raised([st EXCEPT !.snap[path] =
                        [exists |-> TRUE,
                         data |-> SubSeq(data, 1, Min(io.written, Len(data))),
                         complete |-> FALSE]], "OSError")
        ELSE Returned([st EXCEPT !.snap[path] =
                        [exists |-> TRUE, data |-> data, complete |-> TRUE]], <<>>)

\* SiteMonitor.load_history: json.load of a file that does not hold a whole
\* JSON document raises JSONDecodeError
load_history(st, site_name) ==
    LET file == st.hist[_get_history_path(site_name)]
    IN  IF ~file.exists THEN Returned(st, <<>>)
        ELSE IF ~file.complete THEN Raised(st, "JSONDecodeError")
        ELSE Returned(st, file.data)

\* save_history that adds the new event to what the file holds instead of
\* replacing the file by the list
save_history_appends(st, site_name, history, io) ==
    LET path == _get_history_path(site_name)
    IN  IF io.target = "history"
        THEN Raised([st EXCEPT !.hist[path] =
                        [exists |-> TRUE,
                         data |-> SubSeq(history, 1, Min(io.written, Len(history) - 1)),
                         complete |-> FALSE]], "OSError")
        ELSE Returned([st EXCEPT !.hist[path] =
                        [exists |-> TRUE,
                         data |-> IF history = <<>> THEN st.hist[path].data
                                  ELSE st.hist[path].data \o <<history[Len(history)]>>,
                         complete |-> TRUE]], <<>>)

\* SiteMonitor.save_history: open(path, 'w') empties the file, then json.dump
\* writes the list; a write that fails leaves a cut-off JSON text
save_history(st, site_name, history, io) ==
    LET path == _get_history_path(site_name)
    IN  IF io.target = "history"
        THEN Raised([st EXCEPT !.hist[path] =
                        [exists |-> TRUE,
                         data |-> SubSeq(history, 1, Min(io.written, Len(history) - 1)),
                         complete |-> FALSE]], "OSError")
        ELSE Returned([st EXCEPT !.hist[path] =
                        [exists |-> TRUE, data |-> history, complete |-> TRUE]], <<>>)

(* ---------------------- SiteMonitor: fetch (monitor.py) ---------------- *)

\* what the remote end answers: a failed request (network error, timeout,
\* HTTP error status), or a document.  A document is given by the text it
\* holds and by whether the site's selector matches elements of it (their
\* text is then the document's text).
FetchError == [kind |-> "error", text |-> <<>>, matched |-> FALSE]

ResponsesOver(texts) ==
    {FetchError} \cup [kind : {"ok"}, text : texts, matched : BOOLEAN]

\* the answers that make a difference to a site: whether the selector
\* matches matters in selector mode only, and text mode sees a document
\* through its stripped lines
ResponsesFor(site, texts) ==
    {r \in ResponsesOver(texts) :
        r.kind = "ok" =>
            /\ (site.mode # "selector" \/ site.selector.none) => r.matched
            /\ (site.mode = "selector" /\ ~r.matched) =>
                    \A t \in texts : Len(r.text) <= Len(t)}

Whitespace == {" ", "CR", "LF"}

RECURSIVE lstrip(_)
lstrip(s) == IF s # <<>> /\ Head(s) \in Whitespace THEN lstrip(Tail(s)) ELSE s

RECURSIVE rstrip(_)
rstrip(s) ==
    IF s # <<>> /\ s[Len(s)] \in Whitespace THEN rstrip(SubSeq(s, 1, Len(s) - 1)) ELSE s

strip(s) == rstrip(lstrip(s))

\* [line.strip() for line in text.splitlines() if line.strip()]
StrippedLines(text) ==
    LET lines == splitlines(text, FALSE)
        keep == SelectSeq(lines, LAMBDA l : strip(l) # <<>>)
    IN  [k \in 1..Len(keep) |-> strip(keep[k])]

\* fetch_content with the request's failure swallowed: an empty text is
\* returned instead of raising RuntimeError
fetch_content_swallows_error(st, site, resp) ==
    IF resp.kind = "error" THEN Returned(st, Some(<<>>))
    ELSE IF site.mode = "full" THEN Returned(st, Some(resp.text))
    ELSE IF site.mode = "selector" /\ ~site.selector.none
         THEN IF resp.matched THEN Returned(st, Some(resp.text))
              ELSE Returned(st, None)
    ELSE Returned(st, Some(Join(<<"LF">>, StrippedLines(resp.text))))

\* fetch_content that joins the (no) matched elements instead of returning
\* None when the selector matches nothing
fetch_content_joins_no_match(st, site, resp) ==
    IF resp.kind = "error" THEN Raised(st, "RuntimeError")
    ELSE IF site.mode = "full" THEN Returned(st, Some(resp.text))
    ELSE IF site.mode = "selector" /\ ~site.selector.none
         THEN IF resp.matched THEN Returned(st, Some(resp.text))
              ELSE Returned(st, Some(<<>>))
    ELSE Returned(st, Some(Join(<<"LF">>, StrippedLines(resp.text))))

\* SiteMonitor.fetch_content
fetch_content(st, site, resp) ==
    IF resp.kind = "error" THEN Raised(st, "RuntimeError")
    ELSE IF site.mode = "full" THEN Returned(st, Some(resp.text))
    ELSE IF site.mode = "selector" /\ ~site.selector.none
         THEN IF resp.matched THEN Returned(st, Some(resp.text))
              ELSE Returned(st, None)
    ELSE Returned(st, Some(Join(<<"LF">>, StrippedLines(resp.text))))

(* -------------------- SiteMonitor.check_site (monitor.py) -------------- *)

\* datetime.now().isoformat()
isoformat(now) == [iso |-> now]

InitialEvent(now, current_hash) ==
    [timestamp |-> isoformat(now), event |-> "initial_snapshot", hash |-> current_hash]

ChangeEvent(now, previous_hash, current_hash, diff) ==
    [timestamp |-> isoformat(now), event |-> "change_detected",
     old_hash |-> previous_hash, new_hash |-> current_hash,
     diff_lines |-> CountDiffLines(diff)]

ChangeRecord(site, now, previous_hash, current_hash, diff, previous_content, current_content) ==
    [site_name |-> site.name, url |-> site.url, timestamp |-> isoformat(now),
     old_hash |-> previous_hash, new_hash |-> current_hash, diff |-> diff,
     old_content |-> previous_content, new_content |-> current_content]

\* what check_site hands to its caller: None, a ChangeRecord, or an exception
RetNone == [kind |-> "None", exc |-> ""]

RetChange(rec) == [kind |-> "ChangeRecord", exc |-> "", change |-> rec]

RetRaise(exc) == [kind |-> "raise", exc |-> exc]

Outcome(st, ret) == [st |-> st, ret |-> ret]

\* the append without the read: the log is replaced by the new event alone
AppendEvent_overwrites(st, site, event, io, ret) ==
    LET saved == save_history(st, site.name, <<event>>, io)
    IN  IF saved.raised THEN Outcome(saved.st, RetRaise(saved.exc))
        ELSE Outcome(saved.st, ret)

\* history.append(event); self.save_history(site.name, history)
AppendEvent(st, site, event, io, ret) ==
    LET loaded == load_history(st, site.name)
    IN  IF loaded.raised THEN Outcome(st, RetRaise(loaded.exc))
        ELSE LET saved == save_history(st, site.name, Append(loaded.val, event), io)
             IN  IF saved.raised THEN Outcome(saved.st, RetRaise(saved.exc))
                 ELSE Outcome(saved.st, ret)

\* the first check of a site (monitor.py 176-186)
FirstCheck(st, site, current_content, now, io) ==
    LET saved == save_snapshot(st, site.name, current_content, io)
    IN  IF saved.raised THEN Outcome(saved.st, RetRaise(saved.exc))
        ELSE AppendEvent(saved.st, site,
                         InitialEvent(now, get_content_hash(current_content)), io, RetNone)

\* a check that finds other content than the snapshot (monitor.py 190-218)
ChangeDetected(st, site, previous_content, current_content, now, io) ==
    LET previous_hash == get_content_hash(previous_content)
        current_hash == get_content_hash(current_content)
        diff == get_diff(previous_content, current_content)
        saved == save_snapshot(st, site.name, current_content, io)
    IN  IF saved.raised THEN Outcome(saved.st, RetRaise(saved.exc))
        ELSE AppendEvent(saved.st, site,
                         ChangeEvent(now, previous_hash, current_hash, diff), io,
                         RetChange(ChangeRecord(site, now, previous_hash, current_hash,
                                                diff, previous_content, current_content)))

\* SiteMonitor.check_site
check_site(st, site, resp, now, io) ==
    LET fetched == fetch_content(st, site, resp)
    IN  IF fetched.raised THEN Outcome(st, RetRaise(fetched.exc))
        ELSE IF fetched.val.none THEN Outcome(st, RetNone)
        ELSE LET current_content == fetched.val.val
                 previous == load_snapshot(st, site.name)
             IN  IF previous.none
                 THEN FirstCheck(st, site, current_content, now, io)
                 ELSE IF get_content_hash(current_content) # get_content_hash(previous.val)
                 THEN ChangeDetected(st, site, previous.val, current_content, now, io)
                 ELSE Outcome(st, RetNone)

\* get_site_status that counts every event of the log as a change
get_site_status_counts_all(st, site_name) ==
    LET loaded == load_history(st, site_name)
        history == loaded.val
    IN  IF loaded.raised THEN Raised(st, loaded.exc)
        ELSE Returned(st,
                [has_snapshot |-> st.snap[_get_snapshot_path(site_name)].exists,
                 total_changes |-> Len(history),
                 last_check |->
                    IF history # <<>> THEN Some(history[Len(history)].timestamp) ELSE None,
                 history |-> LastN(history, 10)])

\* SiteMonitor.get_site_status
get_site_status(st, site_name) ==
    LET loaded == load_history(st, site_name)
        history == loaded.val
    IN  IF loaded.raised THEN Raised(st, loaded.exc)
        ELSE Returned(st,
                [has_snapshot |-> st.snap[_get_snapshot_path(site_name)].exists,
                 total_changes |->
                    Cardinality({k \in 1..Len(history) : history[k].event = "change_detected"}),
                 last_check |->
                    IF history # <<>> THEN Some(history[Len(history)].timestamp) ELSE None,
                 history |-> LastN(history, 10)])

(* -------------------- NotificationManager (notifier.py) ----------------- *)

\* NotificationManager.notifiers after SiteMonitorBot._setup_notifiers with a
\* webhook_url configured
Notifiers == <<"ConsoleNotifier", "WebhookNotifier">>

\* how each notifier's notify ends, as notify_all sees it (it drops the
\* returned bool): ConsoleNotifier returns unless printing raises;
\* WebhookNotifier catches its own errors and always returns
NotifyOutcomes ==
    {o \in [1..Len(Notifiers) -> {"returned", "raised"}] : o[2] = "returned"}

RECURSIVE NotifyFrom_stops_on_error(_, _, _)
\* the loop without its try/except: the first notifier that raises ends it
NotifyFrom_stops_on_error(k, site_name, nout) ==
    IF k > Len(Notifiers) THEN <<>>
    ELSE <<[notifier |-> Notifiers[k], site_name |-> site_name, outcome |-> nout[k]]>>
         \o (IF nout[k] = "raised" THEN <<>>
             ELSE NotifyFrom_stops_on_error(k + 1, site_name, nout))

RECURSIVE NotifyFrom(_, _, _)
NotifyFrom(k, site_name, nout) ==
    IF k > Len(Notifiers) THEN <<>>
    ELSE <<[notifier |-> Notifiers[k], site_name |-> site_name, outcome |-> nout[k]]>>
         \o NotifyFrom(k + 1, site_name, nout)

\* NotificationManager.notify_all: every notifier in turn, an exception of
\* one is logged and the loop goes on; the value is the calls made
notify_all(change, nout) == NotifyFrom(1, change.site_name, nout)

(* -------------------------- SiteMonitorBot (bot.py) -------------------- *)

\* the store as one value
Store == [snap |-> snapshot_files, hist |-> history_files]

\* what SiteMonitorBot.check_site does with the outcome of the monitor's
\* check: a change is logged and notified, an exception is logged; caught
\* says whether the except clause is there to catch it
TryExcept(out, nout, caught) ==
    [st |-> out.st,
     ret |-> out.ret,
     raised |-> ~caught /\ out.ret.kind = "raise",
     logged |-> CASE out.ret.kind = "raise" -> "error"
                  [] out.ret.kind = "ChangeRecord" -> "change"
                  [] OTHER -> "no_change",
     notified |-> IF out.ret.kind = "ChangeRecord"
                  THEN notify_all(out.ret.change, nout) ELSE <<>>]

\* check_site without its try/except: an exception of the monitor's check
\* leaves the method
BotCheckSite_propagates(st, site, resp, now, nout) ==
    TryExcept(check_site(st, site, resp, now, NoFault), nout, FALSE)

\* SiteMonitorBot.check_site: the monitor's check, notify_all on a change,
\* any exception caught and logged; raised says whether an exception leaves
\* the method
BotCheckSite(st, site, resp, now, nout) ==
    TryExcept(check_site(st, site, resp, now, NoFault), nout, TRUE)

\* what the check of site k did
CheckedSite(k, one) ==
    [site |-> k, ret |-> one.ret, logged |-> one.logged,
     notified |-> one.notified, raised |-> one.raised]

RECURSIVE CheckAllFrom(_, _, _, _, _, _)
RECURSIVE CheckAllAfter(_, _, _, _, _, _)
\* the loop of check_all_sites once site k is checked with outcome one: an
\* exception leaving the check ends the loop, otherwise it goes on with the
\* next site
CheckAllAfter(one, cfg, k, resps, now, nout) ==
    IF one.raised THEN [st |-> one.st, done |-> <<CheckedSite(k, one)>>]
    ELSE [CheckAllFrom(one.st, cfg, k + 1, resps, now + 1, nout)
            EXCEPT !.done = <<CheckedSite(k, one)>> \o @]

\* SiteMonitorBot.check_all_sites from site k on: done holds what the checks
\* of the sites from k on did
CheckAllFrom(st, cfg, k, resps, now, nout) ==
    IF k > Len(cfg) THEN [st |-> st, done |-> <<>>]
    ELSE CheckAllAfter(BotCheckSite(st, cfg[k], resps[k], now, nout),
                       cfg, k, resps, now, nout)

check_all_sites(st, cfg, resps, now, nout) == CheckAllFrom(st, cfg, 1, resps, now, nout)

\* SiteMonitorBot.show_history: the site whose name matches without regard
\* to case, then one printed line for each of the last `limit` events
show_history(st, cfg, site_name, limit) ==
    LET hits == {k \in 1..Len(cfg) :
                    [c \in 1..Len(cfg[k].name) |-> lower(cfg[k].name[c])]
                    = [c \in 1..Len(site_name) |-> lower(site_name[c])]}
    IN  IF hits = {} THEN Returned(st, [found |-> FALSE, printed |-> <<>>])
        ELSE LET site == cfg[CHOOSE k \in hits : \A o \in hits : k <= o]
                 loaded == load_history(st, site.name)
                 shown == LastN(loaded.val, limit)
             IN  IF loaded.raised THEN Raised(st, loaded.exc)
                 ELSE Returned(st,
                        [found |-> TRUE,
                         printed |->
                            [k \in 1..Len(shown) |->
                                IF shown[k].event = "initial_snapshot"
                                THEN [timestamp |-> shown[k].timestamp,
                                      text |-> "Initial snapshot created",
                                      diff_lines |-> 0]
                                ELSE [timestamp |-> shown[k].timestamp,
                                      text |-> "CHANGE - lines modified",
                                      diff_lines |-> shown[k].diff_lines]]])

(* ------------------------------- actions ------------------------------- *)

\* the content a check observes, appended to what was observed before
Observe(obs, site, resp) ==
    LET f == _get_safe_filename(site.name)
    IN  IF resp.kind = "error" \/ (site.mode = "selector" /\ ~resp.matched) THEN obs
        ELSE [obs EXCEPT ![f] =
                Append(@, IF site.mode = "text"
                          THEN Join(<<"LF">>, StrippedLines(resp.text))
                          ELSE resp.text)]

RECURSIVE ObserveAll(_, _, _, _)
ObserveAll(obs, cfg, resps, k) ==
    IF k > Len(cfg) THEN obs
    ELSE ObserveAll(Observe(obs, cfg[k], resps[k]), cfg, resps, k + 1)

NoCalls == [check_site |-> 0, check_all_sites |-> 0]

\* a monitor and a bot just constructed over an empty data directory
InitWith(cfg) ==
    /\ sites = cfg
    /\ snapshot_files = EmptyStore.snap
    /\ history_files = EmptyStore.hist
    /\ clock = 0
    /\ calls = NoCalls
    /\ observed = [f \in Filenames |-> <<>>]
    /\ result = [op |-> "init"]
    /\ threads = <<>>

\* one call of SiteMonitor.check_site(sites[i]) that the remote end answers
\* with resp and whose writes go as io says
CheckSiteCall(i, resp, io) ==
    LET out == check_site(Store, sites[i], resp, clock, io)
    IN  /\ calls.check_site < MaxChecks
        /\ snapshot_files' = out.st.snap
        /\ history_files' = out.st.hist
        /\ clock' = clock + 1
        /\ calls' = [calls EXCEPT !.check_site = @ + 1]
        /\ observed' = Observe(observed, sites[i], resp)
        /\ result' = [op |-> "check_site", site |-> i, resp |-> resp, io |-> io,
                      ret |-> out.ret]
        /\ UNCHANGED <<sites, threads>>

MonitorCheckSite ==
    \E i \in 1..Len(sites) :
        \E resp \in ResponsesFor(sites[i], Texts) :
            CheckSiteCall(i, resp, NoFault)

GetSiteStatus ==
    \E i \in 1..Len(sites) :
        /\ result' = [op |-> "get_site_status", site |-> i,
                      ret |-> get_site_status(Store, sites[i].name)]
        /\ UNCHANGED <<sites, snapshot_files, history_files, clock, calls, observed, threads>>

LoadHistory ==
    \E i \in 1..Len(sites) :
        /\ result' = [op |-> "load_history", site |-> i,
                      ret |-> load_history(Store, sites[i].name)]
        /\ UNCHANGED <<sites, snapshot_files, history_files, clock, calls, observed, threads>>

\* the names show_history is asked for: a configured name, the same name in
\* another case, a name that is not configured
QueryNames == {<<"n", "e", "w", "s">>, SiteShop.name, SiteDocs.name, <<"n", "o">>}

\* the limits show_history is called with: its default and a shorter one
ShowLimits == {1, 20}

ShowHistory ==
    \E site_name \in QueryNames, limit \in ShowLimits :
        LET shown == show_history(Store, sites, site_name, limit)
        IN  /\ result' = [op |-> "show_history", site_name |-> site_name,
                          limit |-> limit, ret |-> shown]
            /\ snapshot_files' = shown.st.snap
            /\ history_files' = shown.st.hist
            /\ UNCHANGED <<sites, clock, calls, observed, threads>>

\* the documents of the batch specification
BatchTexts == {<<"a">>, <<"a", "LF", "a">>}

RECURSIVE BatchResponsesFrom(_, _)
\* one answer for each site from site k on
BatchResponsesFrom(cfg, k) ==
    IF k > Len(cfg) THEN {<<>>}
    ELSE {<<r>> \o rest : r \in ResponsesFor(cfg[k], BatchTexts),
                          rest \in BatchResponsesFrom(cfg, k + 1)}

BatchResponses(cfg) == BatchResponsesFrom(cfg, 1)

\* one call of SiteMonitorBot.check_all_sites that the remote ends answer
\* with resps and that goes as all says
BatchCall(resps, all) ==
    /\ calls.check_all_sites < MaxBatches
    /\ snapshot_files' = all.st.snap
    /\ history_files' = all.st.hist
    /\ clock' = clock + Len(sites)
    /\ calls' = [calls EXCEPT !.check_all_sites = @ + 1]
    /\ observed' = ObserveAll(observed, sites, resps, 1)
    /\ result' = [op |-> "check_all_sites", resps |-> resps,
                  started |-> clock, done |-> all.done]
    /\ UNCHANGED <<sites, threads>>

BotCheckAllSites ==
    \E resps \in BatchResponses(sites), nout \in NotifyOutcomes :
        BatchCall(resps, check_all_sites(Store, sites, resps, clock, nout))

(* ---------------------------- specifications --------------------------- *)

\* a monitor with one configured site, used directly
Init == \E cfg \in SingleSiteConfigs : InitWith(cfg)

Next ==
    \/ MonitorCheckSite
    \/ GetSiteStatus
    \/ LoadHistory
    \/ ShowHistory

Spec == Init /\ [][Next]_vars

\* the texts of the diff specification: up to MaxLines one-character lines
DiffLines == {<<"a">>, <<"b">>, <<"c">>, <<"x">>}

DiffTexts == {Join(<<"LF">>, ls) : ls \in SeqsUpTo(DiffLines, MaxLines)}

OkResponse(text) == [kind |-> "ok", text |-> text, matched |-> TRUE]

\* a monitor of one full-mode site whose first check has stored a snapshot
InitDiff ==
    \E old \in DiffTexts :
        LET out == check_site(EmptyStore, SiteNews, OkResponse(old), 0, NoFault)
        IN  /\ sites = <<SiteNews>>
            /\ snapshot_files = out.st.snap
            /\ history_files = out.st.hist
            /\ clock = 1
            /\ calls = [NoCalls EXCEPT !.check_site = 1]
            /\ observed = Observe([f \in Filenames |-> <<>>], SiteNews, OkResponse(old))
            /\ result = [op |-> "check_site", site |-> 1, resp |-> OkResponse(old),
                         io |-> NoFault, ret |-> out.ret]
            /\ threads = <<>>

\* the check that follows the first one
SecondCheckSite ==
    \E new \in DiffTexts :
        /\ Len(history_files[_get_safe_filename(SiteNews.name)].data) = 1
        /\ CheckSiteCall(1, OkResponse(new), NoFault)

NextDiff == SecondCheckSite

SpecDiff == InitDiff /\ [][NextDiff]_vars

\* the ways a write of a check fails part-way
Faults == [target : {"snapshot", "history"}, written : 0..MaxLen]

\* a check one of whose writes fails after the file was opened
FaultyCheckSite ==
    \E i \in 1..Len(sites) :
        \E resp \in ResponsesFor(sites[i], Texts), io \in Faults :
            CheckSiteCall(i, resp, io)

NextFault ==
    \/ MonitorCheckSite
    \/ FaultyCheckSite
    \/ GetSiteStatus
    \/ LoadHistory

\* a monitor with one configured site whose storage writes may fail
SpecFault == Init /\ [][NextFault]_vars

\* a bot with three configured sites that runs batches
InitBatch == InitWith(BatchSites)

NextBatch == BotCheckAllSites

SpecBatch == InitBatch /\ [][NextBatch]_vars

\* the text the k-th check of an earlier run observed: it changed every time
StoredText(k) == IF k % 2 = 1 THEN <<"a">> ELSE <<"b">>

RECURSIVE StoredAfter(_, _)
\* the data directory after n checks of site, made one after the other
StoredAfter(site, n) ==
    IF n = 0 THEN EmptyStore
    ELSE LET before == StoredAfter(site, n - 1)
         IN  check_site(before, site, OkResponse(StoredText(n)), n - 1, NoFault).st

\* a monitor constructed over the data directory that earlier checks of its
\* one site left
InitStatus ==
    \E n \in 0..MaxStored :
        /\ sites = <<SiteNews>>
        /\ snapshot_files = StoredAfter(SiteNews, n).snap
        /\ history_files = StoredAfter(SiteNews, n).hist
        /\ clock = n
        /\ calls = NoCalls
        /\ observed = [f \in Filenames |->
                         IF f = _get_safe_filename(SiteNews.name)
                         THEN [k \in 1..n |-> StoredText(k)] ELSE <<>>]
        /\ result = [op |-> "init"]
        /\ threads = <<>>

\* what the remote end answers in SpecStatus
StatusTexts == {<<>>, <<"a">>, <<"b">>}

StatusCheckSite ==
    \E i \in 1..Len(sites) :
        \E resp \in ResponsesFor(sites[i], StatusTexts) :
            CheckSiteCall(i, resp, NoFault)

NextStatus ==
    \/ StatusCheckSite
    \/ GetSiteStatus

SpecStatus == InitStatus /\ [][NextStatus]_vars

\* a monitor of three sites, two of which have names that lead to one file
\* name
InitAlias == InitWith(AliasSites)

NextAlias ==
    \/ MonitorCheckSite
    \/ GetSiteStatus

SpecAlias == InitAlias /\ [][NextAlias]_vars
(* ---------------- concurrent check_site calls (monitor.py) ------------- *)

\* SiteMonitor takes no lock and its files are shared, so two check_site
\* calls (two threads, or two processes over one data_dir) interleave
\* between their file operations.  A thread is a call of check_site: pc is
\* the file operation it makes next, the other fields are its locals.
Threads == {1, 2}

NewThread(i, resp, st) ==
    [pc |-> "fetch_content", site |-> i, resp |-> resp, started |-> st,
     current_content |-> <<>>, previous_content |-> None, timestamp |-> None,
     diff |-> <<>>, history |-> <<>>, ret |-> RetNone]

\* the documents of the concurrent checks
RaceTexts == {<<"a">>, <<"b">>}

\* a call of check_site(sites[i]) begins
StartCheck ==
    \E i \in 1..Len(sites) :
        \E resp \in ResponsesFor(sites[i], RaceTexts) :
            /\ Len(threads) < Cardinality(Threads)
            /\ threads' = Append(threads, NewThread(i, resp, Store))
            /\ calls' = [calls EXCEPT !.check_site = @ + 1]
            /\ UNCHANGED <<sites, snapshot_files, history_files, clock, observed, result>>

Finished(t, ret) == [t EXCEPT !.pc = "done", !.ret = ret]

\* current_content = self.fetch_content(site) and the test for None
ThreadFetch(p) ==
    LET t == threads[p]
        fetched == fetch_content(Store, sites[t.site], t.resp)
    IN  /\ t.pc = "fetch_content"
        /\ threads' = [threads EXCEPT ![p] =
                IF fetched.raised THEN Finished(t, RetRaise(fetched.exc))
                ELSE IF fetched.val.none THEN Finished(t, RetNone)
                ELSE [t EXCEPT !.pc = "load_snapshot",
                               !.current_content = fetched.val.val]]
        /\ observed' = Observe(observed, sites[t.site], t.resp)
        /\ UNCHANGED <<sites, snapshot_files, history_files, clock, calls, result>>

\* previous_content = self.load_snapshot(site.name), the comparison of the
\* hashes and, for a change, get_diff and timestamp = datetime.now()
ThreadLoadSnapshot(p) ==
    LET t == threads[p]
        previous == load_snapshot(Store, sites[t.site].name)
        changed == get_content_hash(t.current_content) # get_content_hash(previous.val)
    IN  /\ t.pc = "load_snapshot"
        /\ threads' = [threads EXCEPT ![p] =
                IF previous.none
                THEN [t EXCEPT !.pc = "save_snapshot", !.previous_content = previous]
                ELSE IF changed
                THEN [t EXCEPT !.pc = "save_snapshot", !.previous_content = previous,
                               !.diff = get_diff(previous.val, t.current_content),
                               !.timestamp = Some(clock)]
                ELSE Finished(t, RetNone)]
        /\ clock' = IF ~previous.none /\ changed THEN clock + 1 ELSE clock
        /\ UNCHANGED <<sites, snapshot_files, history_files, calls, observed, result>>

\* self.save_snapshot(site.name, current_content)
ThreadSaveSnapshot(p) ==
    LET t == threads[p]
        saved == save_snapshot(Store, sites[t.site].name, t.current_content, NoFault)
    IN  /\ t.pc = "save_snapshot"
        /\ snapshot_files' = saved.st.snap
        /\ history_files' = saved.st.hist
        /\ threads' = [threads EXCEPT ![p] = [t EXCEPT !.pc = "load_history"]]
        /\ UNCHANGED <<sites, clock, calls, observed, result>>

\* the event a thread appends; a first check takes its timestamp now
ThreadEvent(t, now) ==
    IF t.previous_content.none
    THEN InitialEvent(now, get_content_hash(t.current_content))
    ELSE ChangeEvent(t.timestamp.val, get_content_hash(t.previous_content.val),
                     get_content_hash(t.current_content), t.diff)

\* history = self.load_history(site.name); history.append({...})
ThreadLoadHistory(p) ==
    LET t == threads[p]
        loaded == load_history(Store, sites[t.site].name)
    IN  /\ t.pc = "load_history"
        /\ threads' = [threads EXCEPT ![p] =
                IF loaded.raised THEN Finished(t, RetRaise(loaded.exc))
                ELSE [t EXCEPT !.pc = "save_history",
                               !.history = Append(loaded.val, ThreadEvent(t, clock)),
                               !.timestamp = IF t.previous_content.none
                                             THEN Some(clock) ELSE @]]
        /\ clock' = IF ~loaded.raised /\ t.previous_content.none THEN clock + 1 ELSE clock
        /\ UNCHANGED <<sites, snapshot_files, history_files, calls, observed, result>>

\* self.save_history(site.name, history) and the return
ThreadSaveHistory(p) ==
    LET t == threads[p]
        site == sites[t.site]
        saved == save_history(Store, site.name, t.history, NoFault)
    IN  /\ t.pc = "save_history"
        /\ snapshot_files' = saved.st.snap
        /\ history_files' = saved.st.hist
        /\ threads' = [threads EXCEPT ![p] =
                Finished(t,
                    IF t.previous_content.none THEN RetNone
                    ELSE RetChange(ChangeRecord(site, t.timestamp.val,
                                        get_content_hash(t.previous_content.val),
                                        get_content_hash(t.current_content), t.diff,
                                        t.previous_content.val, t.current_content)))]
        /\ UNCHANGED <<sites, clock, calls, observed, result>>

\* a check made before any concurrent one began
PriorCheckSite ==
    \E i \in 1..Len(sites) :
        \E resp \in ResponsesFor(sites[i], RaceTexts) :
            /\ threads = <<>>
            /\ calls.check_site < MaxPrior
            /\ CheckSiteCall(i, resp, NoFault)

InitRace == InitWith(RaceSites)

NextRace ==
    \/ PriorCheckSite
    \/ StartCheck
    \/ \E p \in 1..Len(threads) : ThreadFetch(p)
    \/ \E p \in 1..Len(threads) : ThreadLoadSnapshot(p)
    \/ \E p \in 1..Len(threads) : ThreadSaveSnapshot(p)
    \/ \E p \in 1..Len(threads) : ThreadLoadHistory(p)
    \/ \E p \in 1..Len(threads) : ThreadSaveHistory(p)

\* a monitor of two sites whose checks run concurrently
SpecRace == InitRace /\ [][NextRace]_vars

(* ------------------------------- claims -------------------------------- *)

SiteFile(i) == _get_safe_filename(sites[i].name)

Log(f) == history_files[f].data

Last(s) == s[Len(s)]

\* the snapshot as load_snapshot returns it
Snapshot(i) == load_snapshot(Store, sites[i].name)

\* C1: a target whose checks all observed the same text has exactly one
\* event, initial_snapshot, holds the snapshot its first check stored, and
\* its checks return None.
C1_SteadyStateIdempotent ==
    \A i \in 1..Len(sites) :
        LET f == SiteFile(i)
            obs == observed[f]
        IN  (/\ obs # <<>>
             /\ calls.check_site = Len(obs)
             /\ \A k \in 1..Len(obs) : obs[k] = obs[1])
            => /\ Len(Log(f)) = 1
               /\ Log(f)[1].event = "initial_snapshot"
               /\ Log(f)[1].hash = get_content_hash(obs[1])
               /\ snapshot_files[f].exists
               /\ snapshot_files[f].data = WriteTranslate(obs[1])
               /\ result.op = "check_site" => result.ret.kind = "None"

\* C2: after the checks [A, B] with A # B on a fresh target: after check 1
\* the snapshot is A, the log is [initial_snapshot(hash(A))] and the check
\* returned None; after check 2 the snapshot is B, the log is
\* [initial_snapshot(hash(A)), change_detected(hash(A), hash(B))] and the
\* check returned a ChangeRecord with old_content A and new_content B.
C2_ChangeDetection ==
    \A i \in 1..Len(sites) :
        LET f == SiteFile(i)
            obs == observed[f]
            A == obs[1]
            B == obs[2]
        IN  /\ (Len(obs) = 1 /\ calls.check_site = 1)
               => /\ Snapshot(i) = Some(A)
                  /\ Len(Log(f)) = 1
                  /\ Log(f)[1].event = "initial_snapshot"
                  /\ Log(f)[1].hash = get_content_hash(A)
                  /\ result.op = "check_site" => result.ret.kind = "None"
            /\ (Len(obs) = 2 /\ calls.check_site = 2 /\ A # B)
               => /\ Snapshot(i) = Some(B)
                  /\ Len(Log(f)) = 2
                  /\ Log(f)[1].event = "initial_snapshot"
                  /\ Log(f)[1].hash = get_content_hash(A)
                  /\ Log(f)[2].event = "change_detected"
                  /\ Log(f)[2].old_hash = get_content_hash(A)
                  /\ Log(f)[2].new_hash = get_content_hash(B)
                  /\ result.op = "check_site"
                     => /\ result.ret.kind = "ChangeRecord"
                        /\ result.ret.change.old_content = A
                        /\ result.ret.change.new_content = B
                        /\ result.ret.change.old_hash = get_content_hash(A)
                        /\ result.ret.change.new_hash = get_content_hash(B)

\* C3: a check whose fetch fails raises to its caller and leaves every
\* snapshot and history file as it was.
C3_FetchFailureKeepsState ==
    [][(result'.op = "check_site" /\ result'.resp.kind = "error")
       => /\ result'.ret.kind = "raise"
          /\ result'.ret.exc = "RuntimeError"
          /\ snapshot_files' = snapshot_files
          /\ history_files' = history_files]_vars

\* a fetch has failed for a target that had a snapshot and a history
C3_Witness ==
    /\ result.op = "check_site"
    /\ result.resp.kind = "error"
    /\ result.ret.kind = "raise"
    /\ snapshot_files[SiteFile(result.site)].exists
    /\ Len(Log(SiteFile(result.site))) >= 1

\* the last operation was a check in selector mode whose selector matched
\* nothing
SelectorEmpty(r, cfg) ==
    /\ r.op = "check_site"
    /\ cfg[r.site].mode = "selector"
    /\ ~cfg[r.site].selector.none
    /\ r.resp.kind = "ok"
    /\ ~r.resp.matched

\* C4: a check in selector mode whose selector matches nothing returns None
\* and leaves snapshot and history as they were, with or without a prior
\* snapshot, so that the next check compares against that snapshot.
C4_SelectorEmptyIsNoChange ==
    [][SelectorEmpty(result', sites')
       => /\ result'.ret.kind = "None"
          /\ snapshot_files' = snapshot_files
          /\ history_files' = history_files]_vars

\* the selector matched nothing for a target that had a snapshot
C4_Witness ==
    /\ SelectorEmpty(result, sites)
    /\ result.ret.kind = "None"
    /\ snapshot_files[SiteFile(result.site)].exists
    /\ Len(Log(SiteFile(result.site))) >= 1

\* the lines unified_diff tags with `tag` between two texts
TaggedLines(old_content, new_content, tag) ==
    LET a == splitlines(old_content, TRUE)
        b == splitlines(new_content, TRUE)
        body == OpcodeLines(a, b, get_matching_blocks(a, b, 0, Len(a), 0, Len(b)), 0, 0)
    IN  Cardinality({k \in 1..Len(body) : body[k].tag = tag})

\* C5: the diff_lines of a change_detected event is the number of added
\* lines plus the number of removed lines; for [a, b, c] -> [a, x, c] it is 2.
C5_DiffLinesCount ==
    (result.op = "check_site" /\ result.ret.kind = "ChangeRecord")
    => LET ev == Last(Log(SiteFile(result.site)))
           old == result.ret.change.old_content
           new == result.ret.change.new_content
       IN  /\ ev.event = "change_detected"
           /\ ev.diff_lines = TaggedLines(old, new, "+") + TaggedLines(old, new, "-")
           /\ (/\ splitlines(old, FALSE) = <<<<"a">>, <<"b">>, <<"c">>>>
               /\ splitlines(new, FALSE) = <<<<"a">>, <<"x">>, <<"c">>>>)
              => ev.diff_lines = 2

\* the last operation was a check that saved the content it observed
SavedByLastCheck(i) ==
    /\ result.op = "check_site"
    /\ result.site = i
    /\ Log(SiteFile(i)) # <<>>
    /\ Last(Log(SiteFile(i))).timestamp = isoformat(clock - 1)

\* C6: load_snapshot after save_snapshot(name, text) returns exactly text,
\* so the hash of the loaded snapshot is the hash of the saved text.
C6_SnapshotRoundTrip ==
    \A i \in 1..Len(sites) :
        SavedByLastCheck(i)
        => /\ Snapshot(i) = Some(Last(observed[SiteFile(i)]))
           /\ get_content_hash(Snapshot(i).val)
              = get_content_hash(Last(observed[SiteFile(i)]))

ReadOps == {"get_site_status", "load_history", "show_history"}

\* view holds the last n entries of log, in order
IsTail(view, log, n) ==
    /\ Len(view) = Min(n, Len(log))
    /\ \A k \in 1..Len(view) : view[k] = log[Len(log) - Len(view) + k]

Timestamps(entries) == [k \in 1..Len(entries) |-> entries[k].timestamp]

\* C7: no step removes, reorders or changes an event of a log, a step adds
\* at most one event, and get_site_status, load_history and show_history
\* write nothing: they return the last 10, all, the last `limit` events.
C7_HistoryAppendOnly ==
    [][/\ \A f \in Filenames :
            /\ history_files[f].exists => history_files'[f].exists
            /\ IsPrefix(history_files[f].data, history_files'[f].data)
            /\ Len(history_files'[f].data) <= Len(history_files[f].data) + 1
       /\ result'.op \in ReadOps
          => /\ snapshot_files' = snapshot_files
             /\ history_files' = history_files
       /\ result'.op = "get_site_status"
          => IsTail(result'.ret.val.history,
                    history_files'[_get_safe_filename(sites[result'.site].name)].data, 10)
       /\ result'.op = "load_history"
          => result'.ret.val
             = history_files'[_get_safe_filename(sites[result'.site].name)].data
       /\ (result'.op = "show_history" /\ result'.ret.val.found)
          => \E i \in 1..Len(sites) :
                IsTail(Timestamps(result'.ret.val.printed),
                       Timestamps(history_files'[_get_safe_filename(sites[i].name)].data),
                       result'.limit)]_vars

\* show_history has printed the last event of a log of two or more events
C7_Witness ==
    /\ result.op = "show_history"
    /\ result.ret.val.found
    /\ result.limit = 1
    /\ Len(result.ret.val.printed) = 1
    /\ \E i \in 1..Len(sites) : Len(Log(SiteFile(i))) >= 2

\* C8: the snapshot is absent exactly when no check has observed content,
\* and otherwise is the content of the last check that observed content.
C8_SnapshotIsLastObserved ==
    \A i \in 1..Len(sites) :
        LET obs == observed[SiteFile(i)]
        IN  /\ (obs = <<>>) <=> Snapshot(i).none
            /\ obs # <<>> => Snapshot(i) = Some(Last(obs))

\* C9: a batch checks every site, whatever the checks of the other sites
\* did: each site gets the result, the snapshot and the history that its
\* check alone gives from the state before the batch, and a site whose
\* fetch fails keeps the snapshot and the history it had.
C9_BatchFailureIsolation ==
    [][result'.op = "check_all_sites"
       => /\ Len(result'.done) = Len(sites)
          /\ \A k \in 1..Len(sites) :
                LET f == _get_safe_filename(sites[k].name)
                    alone == check_site(Store, sites[k], result'.resps[k],
                                        result'.started + k - 1, NoFault)
                IN  /\ result'.done[k].site = k
                    /\ result'.done[k].ret = alone.ret
                    /\ snapshot_files'[f] = alone.st.snap[f]
                    /\ history_files'[f] = alone.st.hist[f]
                    /\ result'.resps[k].kind = "error"
                       => /\ result'.done[k].logged = "error"
                          /\ snapshot_files'[f] = snapshot_files[f]
                          /\ history_files'[f] = history_files[f]]_vars

\* in a batch of three the second site's fetch failed, that site had a
\* snapshot, and a change was detected on the first and on the third site
C9_Witness ==
    /\ result.op = "check_all_sites"
    /\ Len(result.done) = 3
    /\ result.resps[2].kind = "error"
    /\ result.done[2].logged = "error"
    /\ snapshot_files[SiteFile(2)].exists
    /\ result.done[1].ret.kind = "ChangeRecord"
    /\ result.done[3].ret.kind = "ChangeRecord"

\* C10: a snapshot or history write that fails after the file was opened
\* leaves the committed file readable as before: load_snapshot and
\* load_history return what they returned before the call.
C10_FailedWriteKeepsCommitted ==
    [][(result'.op = "check_site" /\ result'.ret.kind = "raise"
        /\ result'.ret.exc = "OSError")
       => \A i \in 1..Len(sites) :
            LET after == [snap |-> snapshot_files', hist |-> history_files']
                name == sites[i].name
            IN  /\ (result'.io.target = "snapshot"
                    /\ snapshot_files[_get_snapshot_path(name)].exists)
                   => load_snapshot(after, name) = load_snapshot(Store, name)
                /\ (result'.io.target = "history"
                    /\ history_files[_get_history_path(name)].exists)
                   => /\ ~load_history(after, name).raised
                      /\ load_history(after, name).val = load_history(Store, name).val]_vars

\* the step is a check of site i that observed content
ObservedBy(i) ==
    /\ result'.op = "check_site"
    /\ result'.site = i
    /\ Len(observed'[SiteFile(i)]) = Len(observed[SiteFile(i)]) + 1

\* C12: the empty text is content like any other.  A first check that
\* extracts the empty text saves an empty snapshot, appends initial_snapshot
\* and returns None, and load_snapshot then returns the empty text, not
\* None; with an empty snapshot stored, a check that extracts the empty text
\* writes nothing and returns None, and a check that extracts other text
\* appends change_detected and returns a ChangeRecord whose old_content is
\* the empty text.
C12_EmptyTextIsContent ==
    [][\A i \in 1..Len(sites) :
         ObservedBy(i)
         => LET f == SiteFile(i)
                content == Last(observed'[f])
                after == [snap |-> snapshot_files', hist |-> history_files']
            IN  /\ (~snapshot_files[f].exists /\ content = <<>>)
                   => /\ snapshot_files'[f] = [exists |-> TRUE, data |-> <<>>,
                                               complete |-> TRUE]
                      /\ Len(Log(f)') = Len(Log(f)) + 1
                      /\ IsPrefix(Log(f), Log(f)')
                      /\ Last(Log(f)').event = "initial_snapshot"
                      /\ Last(Log(f)').hash = get_content_hash(<<>>)
                      /\ result'.ret.kind = "None"
                      /\ load_snapshot(after, sites[i].name) = Some(<<>>)
                      /\ load_snapshot(after, sites[i].name) # None
                /\ (snapshot_files[f].exists /\ snapshot_files[f].data = <<>>
                    /\ content = <<>>)
                   => /\ snapshot_files' = snapshot_files
                      /\ history_files' = history_files
                      /\ result'.ret.kind = "None"
                /\ (snapshot_files[f].exists /\ snapshot_files[f].data = <<>>
                    /\ content # <<>>)
                   => /\ result'.ret.kind = "ChangeRecord"
                      /\ result'.ret.change.old_content = <<>>
                      /\ result'.ret.change.new_content = content
                      /\ Len(Log(f)') = Len(Log(f)) + 1
                      /\ IsPrefix(Log(f), Log(f)')
                      /\ Last(Log(f)').event = "change_detected"
                      /\ Last(Log(f)').old_hash = get_content_hash(<<>>)
                      /\ Last(Log(f)').new_hash = get_content_hash(content)
                      /\ snapshot_files'[f].data = WriteTranslate(content)]_vars

\* after a first check and a steady check that both extracted the empty
\* text, a check that extracted other text has returned a ChangeRecord whose
\* old_content is empty
C12_Witness ==
    /\ result.op = "check_site"
    /\ result.ret.kind = "ChangeRecord"
    /\ result.ret.change.old_content = <<>>
    /\ Len(observed[SiteFile(result.site)]) = 3
    /\ observed[SiteFile(result.site)][1] = <<>>
    /\ observed[SiteFile(result.site)][2] = <<>>
    /\ Len(Log(SiteFile(result.site))) = 2

\* what get_site_status returns for site i
Status(i) == get_site_status(Store, sites[i].name).val

\* the step is a check of site i that returned a ChangeRecord
ChangeReturnedBy(i) ==
    /\ result'.op = "check_site"
    /\ result'.site = i
    /\ result'.ret.kind = "ChangeRecord"

\* the step is a check of site i that found the snapshot unchanged, extracted
\* nothing, or failed
NothingNewBy(i) ==
    /\ result'.op = "check_site"
    /\ result'.site = i
    /\ \/ result'.ret.kind = "raise"
       \/ result'.ret.kind = "None" /\ snapshot_files[SiteFile(i)].exists
       \/ result'.ret.kind = "None" /\ ~ObservedBy(i)

\* C13: after every step get_site_status reports has_snapshot exactly when
\* load_snapshot finds a snapshot; total_changes grows by one with every
\* check that returns a ChangeRecord and with nothing else (so it is the
\* number of change_detected events, initial_snapshot not counted);
\* last_check is the timestamp of the last event of the log, None for an
\* empty log, and a steady, absent or failed check leaves it as it was;
\* history is the last 10 events of the log in order; and the call itself
\* writes nothing.
C13_StatusSummary ==
    [][\A i \in 1..Len(sites) :
         LET f == SiteFile(i)
             after == [snap |-> snapshot_files', hist |-> history_files']
             log == history_files'[f].data
             status == get_site_status(after, sites[i].name).val
             events == {k \in 1..Len(log) : log[k].event = "change_detected"}
         IN  /\ status.has_snapshot <=> ~load_snapshot(after, sites[i].name).none
             /\ status.total_changes
                = Status(i).total_changes + (IF ChangeReturnedBy(i) THEN 1 ELSE 0)
             /\ status.total_changes = Cardinality(events)
             /\ status.last_check
                = (IF log = <<>> THEN None ELSE Some(Last(log).timestamp))
             /\ NothingNewBy(i) => status.last_check = Status(i).last_check
             /\ IsTail(status.history, log, 10)
             /\ (result'.op = "get_site_status" /\ result'.site = i)
                => /\ result'.ret.val = status
                   /\ ~result'.ret.raised
                   /\ snapshot_files' = snapshot_files
                   /\ history_files' = history_files]_vars

\* get_site_status has reported a log of more than 10 events, one of them
\* appended by a check of this monitor: 10 events returned, every event but
\* the first counted as a change
C13_Witness ==
    /\ result.op = "get_site_status"
    /\ Len(Log(SiteFile(result.site))) > 10
    /\ calls.check_site >= 1
    /\ Len(result.ret.val.history) = 10
    /\ result.ret.val.total_changes = Len(Log(SiteFile(result.site))) - 1
    /\ result.ret.val.last_check = Some(isoformat(clock - 1))

\* the hash an event leaves the target with
HashAfter(ev) == IF ev.event = "initial_snapshot" THEN ev.hash ELSE ev.new_hash

\* C17: the log is empty and no snapshot exists, or the log starts with one
\* initial_snapshot event followed by change_detected events only, each
\* with old_hash # new_hash and old_hash equal to the hash the event before
\* it left, and the hash of the snapshot load_snapshot returns is the hash
\* the last event left.
C17_HashChain ==
    \A i \in 1..Len(sites) :
        LET log == Log(SiteFile(i))
        IN  IF log = <<>> THEN Snapshot(i).none
            ELSE /\ log[1].event = "initial_snapshot"
                 /\ \A k \in 2..Len(log) :
                        /\ log[k].event = "change_detected"
                        /\ log[k].old_hash # log[k].new_hash
                        /\ log[k].old_hash = HashAfter(log[k - 1])
                 /\ ~Snapshot(i).none
                 /\ get_content_hash(Snapshot(i).val) = HashAfter(Last(log))

\* C16: in a batch, notify_all is called for a site exactly when the
\* monitor's check of it returned a ChangeRecord: not for the first
\* observation of a target, not for a check that found the snapshot's hash
\* unchanged, not for an absent extraction, not for a failed fetch.  A call
\* of notify_all invokes every registered notifier once, in registration
\* order, also after one of them raised.
C16_NotifyExactlyOnChange ==
    [][result'.op = "check_all_sites"
       => \A k \in 1..Len(sites) :
            LET f == SiteFile(k)
                done == result'.done[k]
                resp == result'.resps[k]
                seen == Len(observed'[f]) = Len(observed[f]) + 1
                before == load_snapshot(Store, sites[k].name)
            IN  /\ (done.notified # <<>>) <=> (done.ret.kind = "ChangeRecord")
                /\ done.ret.kind = "ChangeRecord"
                   => /\ Len(done.notified) = Len(Notifiers)
                      /\ \A n \in 1..Len(Notifiers) :
                            /\ done.notified[n].notifier = Notifiers[n]
                            /\ done.notified[n].site_name = sites[k].name
                /\ before.none => done.notified = <<>>
                /\ (seen /\ ~before.none
                    /\ get_content_hash(Last(observed'[f])) = get_content_hash(before.val))
                   => done.notified = <<>>
                /\ (resp.kind = "ok" /\ ~seen) => done.notified = <<>>
                /\ resp.kind = "error" => done.notified = <<>>]_vars

\* a batch in which a change was notified, ConsoleNotifier raised and
\* WebhookNotifier was invoked after it, while a site whose fetch failed and
\* a site checked for the first time were not notified
C16_Witness ==
    /\ result.op = "check_all_sites"
    /\ \E k \in 1..Len(sites) :
            /\ result.done[k].ret.kind = "ChangeRecord"
            /\ Len(result.done[k].notified) = 2
            /\ result.done[k].notified[1].outcome = "raised"
            /\ result.done[k].notified[2].notifier = "WebhookNotifier"
    /\ \E k \in 1..Len(sites) :
            /\ result.resps[k].kind = "error"
            /\ result.done[k].notified = <<>>
    /\ \E k \in 1..Len(sites) :
            /\ Len(Log(SiteFile(k))) = 1
            /\ Last(Log(SiteFile(k))).timestamp = isoformat(result.started + k - 1)
            /\ result.done[k].notified = <<>>

\* the characters of names in [A-Za-z0-9_-]
AsciiWordOrDash == WordOrDash \ {"e-acute"}

\* the lower-cased name with every character outside [A-Za-z0-9_-] replaced
\* by '_'
AsciiToken(name) ==
    [k \in 1..Len(name) |->
        IF lower(name[k]) \in AsciiWordOrDash THEN lower(name[k]) ELSE "_"]

\* sites i and j have different names that lead to one storage token, and
\* the only check so far was the first check of site i
FirstCheckOfAlias(i, j) ==
    /\ sites[i].name # sites[j].name
    /\ SiteFile(i) = SiteFile(j)
    /\ calls.check_site = 1
    /\ result.op = "check_site"
    /\ result.site = i
    /\ Len(observed[SiteFile(i)]) = 1
    /\ ObservedBy(j)

\* what the first check of site j does when it shares its token with site i
\* that was checked before: a change against i's content, or steady state
SharedState(i, j) ==
    LET f == SiteFile(j)
        A == observed[f][1]
        B == Last(observed'[f])
    IN  /\ B # A
           => /\ result'.ret.kind = "ChangeRecord"
              /\ result'.ret.change.site_name = sites[j].name
              /\ Len(Log(f)') = 2
              /\ Log(f)'[2].event = "change_detected"
        /\ B = A
           => /\ result'.ret.kind = "None"
              /\ snapshot_files' = snapshot_files
              /\ history_files' = history_files

\* C15: the storage token of a name is the lower-cased name with every
\* character outside [A-Za-z0-9_-] replaced by '_'; and two different names
\* with one token share snapshot and history: after the first check of one
\* with content A, the first check of the other is a change when its
\* content differs from A and steady state when it is A.
C15_TokenCollision ==
    [][/\ \A i \in 1..Len(sites) :
            _get_safe_filename(sites[i].name) = AsciiToken(sites[i].name)
       /\ AsciiToken(SiteMySite.name) = AsciiToken(SiteMy_site.name)
       /\ \A i, j \in 1..Len(sites) :
            FirstCheckOfAlias(i, j) => SharedState(i, j)]_vars

\* thread t has appended an event and saved the history
Appended(t) == t.pc = "done" /\ t.history # <<>>

\* both concurrent checks were of one target and both appended an event
BothAppended ==
    /\ Len(threads) = 2
    /\ SiteFile(threads[1].site) = SiteFile(threads[2].site)
    /\ Appended(threads[1])
    /\ Appended(threads[2])

\* C11: history updates are unlocked read-modify-write.  When two
\* concurrent checks of one target have both appended an event, the log is
\* the list that one of them saved, and an event is missing from it (the
\* log is shorter than the log before the two checks plus two events)
\* exactly when both loaded the history before either saved it; the log
\* then holds one event more, not two.
C11_LostUpdate ==
    BothAppended
    => LET f == SiteFile(threads[1].site)
           base == threads[1].started.hist[f].data
           overlap == Len(threads[1].history) = Len(threads[2].history)
       IN  /\ Log(f) \in {threads[1].history, threads[2].history}
           /\ (Len(Log(f)) < Len(base) + 2) <=> overlap
           /\ overlap => Len(Log(f)) = Len(base) + 1

\* two concurrent checks of one target that had a snapshot both detected a
\* change and appended change_detected, and the log holds one of the two
\* events only
C11_Witness ==
    /\ BothAppended
    /\ threads[1].ret.kind = "ChangeRecord"
    /\ threads[2].ret.kind = "ChangeRecord"
    /\ Len(Log(SiteFile(threads[1].site)))
       = Len(threads[1].started.hist[SiteFile(threads[1].site)].data) + 1

\* the step is one of a check of a site whose files are named f
StepOfCheckOn(f) ==
    \/ /\ threads' = threads
       /\ result'.op = "check_site"
       /\ SiteFile(result'.site) = f
    \/ \E p \in 1..Len(threads) :
            /\ threads'[p] # threads[p]
            /\ SiteFile(threads[p].site) = f

\* the time a finished thread read the clock at (any time if it did not)
ReadAt(t) == IF t.timestamp.none THEN 0 ELSE t.timestamp.val

\* the checks of threads a and then b, made one after the other from st
OneAfterTheOther(st, a, b) ==
    LET first == check_site(st, sites[a.site], a.resp, ReadAt(a), NoFault)
        second == check_site(first.st, sites[b.site], b.resp, ReadAt(b), NoFault)
    IN  [st |-> second.st, first |-> first.ret, second |-> second.ret]

\* C14: targets whose names lead to different tokens are independent.  A
\* snapshot or history file changes only in a step of a check of the target
\* it belongs to; and when two concurrent checks of two such targets have
\* ended, whatever the interleaving, snapshots and histories are those of
\* the two checks made one after the other, in either order, and each check
\* returned what it returns there.
C14_TargetsIndependent ==
    [][/\ \A f \in Filenames :
            (snapshot_files'[f] # snapshot_files[f] \/ history_files'[f] # history_files[f])
            => StepOfCheckOn(f)
       /\ (/\ Len(threads') = 2
           /\ threads'[1].pc = "done"
           /\ threads'[2].pc = "done"
           /\ _get_safe_filename(sites[threads'[1].site].name)
              # _get_safe_filename(sites[threads'[2].site].name))
          => LET after == [snap |-> snapshot_files', hist |-> history_files']
                 ab == OneAfterTheOther(threads'[1].started, threads'[1], threads'[2])
                 ba == OneAfterTheOther(threads'[1].started, threads'[2], threads'[1])
             IN  /\ after = ab.st
                 /\ after = ba.st
                 /\ threads'[1].ret = ab.first
                 /\ threads'[2].ret = ab.second
                 /\ threads'[1].ret = ba.second
                 /\ threads'[2].ret = ba.first]_vars

\* two concurrent checks of different targets have ended after their file
\* operations interleaved, one with a ChangeRecord and one with a first
\* snapshot
C14_Witness ==
    /\ Len(threads) = 2
    /\ threads[1].pc = "done"
    /\ threads[2].pc = "done"
    /\ SiteFile(threads[1].site) # SiteFile(threads[2].site)
    /\ Appended(threads[1])
    /\ Appended(threads[2])
    /\ threads[1].ret.kind = "ChangeRecord"
    /\ threads[2].timestamp.val < threads[1].timestamp.val
    /\ Len(Log(SiteFile(threads[2].site))) = 1

====
